---------------------------- MODULE Spec2Model ----------------------------
(***************************************************************************)
(* ECC-from-scratch: prime-field arithmetic (src/field.py), the short      *)
(* Weierstrass group law and scalar multiplication (src/curve.py), ECDSA   *)
(* with RFC 6979 nonces (src/ecdsa.py) and ECDH (src/ecdh.py).             *)
(*                                                                         *)
(* The functions of the library are pure; each becomes an operator that    *)
(* computes what the Python computes.  A Python exception is a value: a    *)
(* Result record whose exc field names the exception.  Four specifications *)
(* apply the operators to inputs drawn from bounded sets:                  *)
(*   SpecGroup   negation, addition, doubling, scalar_mult, wNAF           *)
(*   SpecSign    sign (with its recursive retry) followed by verify        *)
(*   SpecVerify  verify on arbitrary public points and integer pairs       *)
(*   SpecECDH    key generation and ecdh_shared_secret                     *)
(* The hash functions of hashlib are external: the SHA-256/HMAC outputs    *)
(* that ECDSA reads are drawn nondeterministically once and then fixed     *)
(* (a deterministic function of its inputs), HashBits wide instead of 256. *)
(***************************************************************************)
EXTENDS Integers, Sequences, FiniteSets, TLC

(***************************************************************************)
(* Bounds of the model.                                                    *)
(***************************************************************************)
\* scalars k of scalar_mult / wnaf_scalar_mult range over -MaxK .. MaxK
MaxK == 13
\* window widths w of wnaf_scalar_mult range over 2 .. MaxW
MaxW == 4
\* width in bits of a digest / HMAC block (256 in hashlib.sha256)
HashBits == 5
\* candidate nonces the RFC 6979 loop may draw before one is accepted
MaxAttempts == 2
\* nesting depth of sign's recursive retry at which Python raises RecursionError
RecursionLimit == 2

(***************************************************************************)
(* Curves.  Curve instances are identified by their index in Curves (the   *)
(* code compares curves by identity, `is`).  Three small instances:        *)
(*   1: a = p-3 like secp256r1, prime order 11 > p                         *)
(*   2: a = 0, b = 7 like secp256k1, prime order 7 < p; G.x = n            *)
(*   3: group order 10 = h*n with cofactor h = 2; (4,0) has order 2        *)
(***************************************************************************)
Curves ==
  << [p |-> 7,  a |-> 4, b |-> 6, Gx |-> 1, Gy |-> 2, n |-> 11, h |-> 1],
     [p |-> 13, a |-> 0, b |-> 7, Gx |-> 7, Gy |-> 5, n |-> 7,  h |-> 1],
     [p |-> 7,  a |-> 4, b |-> 4, Gx |-> 1, Gy |-> 3, n |-> 5,  h |-> 2] >>

CurveIds == DOMAIN Curves

(***************************************************************************)
(* Integer helpers (Python int operators).                                 *)
(***************************************************************************)
RECURSIVE Pow2(_)
Pow2(e) == IF e <= 0 THEN 1 ELSE 2 * Pow2(e - 1)

\* int.bit_length()
RECURSIVE BitLength(_)
BitLength(x) == IF x <= 0 THEN 0 ELSE 1 + BitLength(x \div 2)

\* three-argument pow(a, e, m) for e >= 0, by square and multiply
RECURSIVE ModPow(_, _, _)
ModPow(a, e, m) ==
  IF e = 0 THEN 1 % m
  ELSE LET h == ModPow(a, e \div 2, m)
       IN  IF e % 2 = 0 THEN (h * h) % m ELSE (((h * h) % m) * (a % m)) % m

Abs(z) == IF z < 0 THEN -z ELSE z

(***************************************************************************)
(* PrimeField (src/field.py).  inv raises ZeroDivisionError, modelled as   *)
(* the marker ZeroDivisionError, which no field element equals.            *)
(***************************************************************************)
ZeroDivisionError == -2

FAdd(p, a, b) == (a + b) % p
FSub(p, a, b) == (a - b) % p
FMul(p, a, b) == (a * b) % p
FNeg(p, a) == (-a) % p
FPow(p, a, e) == ModPow(a, e, p)

FInv(p, a) ==
  IF a % p = 0 THEN ZeroDivisionError ELSE ModPow(a, p - 2, p)

FDiv(p, a, b) ==
  LET i == FInv(p, b)
  IN  IF i = ZeroDivisionError THEN ZeroDivisionError ELSE FMul(p, a, i)

(***************************************************************************)
(* Point (src/curve.py).  A point is [curve, x, y]; the Python None of the *)
(* point at infinity is the value None.  A call returns a Result: Ok(v),   *)
(* or Raise(e) for the exception e.                                        *)
(***************************************************************************)
None == -1

Ok(v) == [exc |-> "none", val |-> v]
Raise(e) == [exc |-> e, val |-> [curve |-> 0, x |-> None, y |-> None]]
IsOk(res) == res.exc = "none"

IsInfinity(P) == P.x = None /\ P.y = None

Infinity(c) == [curve |-> c, x |-> None, y |-> None]

\* Point(curve, x, y): the dataclass constructor followed by __post_init__
PointNew(c, x, y) ==
  IF x = None /\ y = None THEN Ok([curve |-> c, x |-> None, y |-> None])
  ELSE LET p  == Curves[c].p
           xn == x % p
           yn == y % p
       IN  IF FPow(p, yn, 2)
                # (FPow(p, xn, 3) + FMul(p, Curves[c].a, xn) + Curves[c].b) % p
           THEN Raise("ValueError: Point is not on the curve")
           ELSE Ok([curve |-> c, x |-> xn, y |-> yn])

G(c) == PointNew(c, Curves[c].Gx, Curves[c].Gy)

PointNeg(P) ==
  IF IsInfinity(P) THEN Ok(P)
  ELSE PointNew(P.curve, P.x, FNeg(Curves[P.curve].p, P.y))

\* line 64: the operands are inverses of each other, or the tangent is vertical
IsVerticalNoInverse(x1, y1, x2, y2) == x1 = x2 /\ y1 = 0
IsVerticalNoTangent(x1, y1, x2, y2) == x1 = x2 /\ y1 # y2
IsVertical(x1, y1, x2, y2) == x1 = x2 /\ (y1 # y2 \/ y1 = 0)

\* lines 67-72: the slope of the tangent (doubling) or of the chord
Slope(c, x1, y1, x2, y2) ==
  LET p == Curves[c].p
  IN  IF x1 = x2 /\ y1 = y2
      THEN FDiv(p, FAdd(p, FMul(p, 3, FPow(p, x1, 2)), Curves[c].a), FMul(p, 2, y1))
      ELSE FDiv(p, FSub(p, y2, y1), FSub(p, x2, x1))

PointAdd(P, Q) ==
  IF P.curve # Q.curve THEN Raise("TypeError: Points on different curves")
  ELSE IF IsInfinity(P) THEN Ok(Q)
  ELSE IF IsInfinity(Q) THEN Ok(P)
  ELSE IF IsVertical(P.x, P.y, Q.x, Q.y) THEN Ok(Infinity(P.curve))
  ELSE LET p  == Curves[P.curve].p
           s  == Slope(P.curve, P.x, P.y, Q.x, Q.y)
           x3 == FSub(p, FSub(p, FPow(p, s, 2), P.x), Q.x)
           y3 == FSub(p, FMul(p, s, FSub(p, P.x, x3)), P.y)
       IN  IF s = ZeroDivisionError
           THEN Raise("ZeroDivisionError")
           ELSE PointNew(P.curve, x3, y3)

PointDouble(P) == PointAdd(P, P)

\* lines 90-97: the double-and-add loop, from the state (k, Q, base)
RECURSIVE ScalarMultLoop(_, _, _)
ScalarMultLoop(k, Q, base) ==
  IF k = 0 THEN Ok(Q)
  ELSE LET q1 == IF k % 2 = 1 THEN PointAdd(Q, base) ELSE Ok(Q)
           b1 == PointDouble(base)
       IN  IF ~IsOk(q1) THEN q1
           ELSE IF ~IsOk(b1) THEN b1
           ELSE ScalarMultLoop(k \div 2, q1.val, b1.val)

\* line 86: the early return of scalar_mult
IsZeroScalarNoReduce(k, P) == k = 0 \/ IsInfinity(P)
IsZeroScalar(k, P) == k % Curves[P.curve].n = 0 \/ IsInfinity(P)

RECURSIVE ScalarMult(_, _)
ScalarMult(k, P) ==
  IF IsZeroScalar(k, P) THEN Ok(Infinity(P.curve))
  ELSE IF k < 0
       THEN LET np == PointNeg(P)
            IN  IF IsOk(np) THEN ScalarMult(-k, np.val) ELSE np
       ELSE ScalarMultLoop(k, Infinity(P.curve), P)


(***************************************************************************)
(* wnaf_scalar_mult (src/curve.py lines 100-132).                          *)
(***************************************************************************)
\* lines 107-110: precomp = [P, 3P, 5P, ...], grown `more` times by adding twoP
RECURSIVE PrecompGrow(_, _, _)
PrecompGrow(table, twoP, more) ==
  IF more <= 0 THEN Ok(table)
  ELSE LET nxt == PointAdd(table[Len(table)], twoP)
       IN  IF IsOk(nxt) THEN PrecompGrow(Append(table, nxt.val), twoP, more - 1)
           ELSE nxt

Precomp(P, w) ==
  LET twoP == PointDouble(P)
  IN  IF IsOk(twoP) THEN PrecompGrow(<<P>>, twoP.val, Pow2(w - 2) - 1) ELSE twoP

\* lines 115-121: the digit taken from k
WnafDigitUnsigned(k, w) == IF k % 2 = 1 THEN k % Pow2(w) ELSE 0
WnafDigit(k, w) ==
  IF k % 2 = 1
  THEN LET zi == k % Pow2(w)
       IN  IF zi > Pow2(w - 1) THEN zi - Pow2(w) ELSE zi
  ELSE 0

\* lines 113-123: the digits, least significant first
RECURSIVE WnafDigits(_, _)
WnafDigits(k, w) ==
  IF k <= 0 THEN <<>>
  ELSE LET zi == WnafDigit(k, w)
       IN  <<zi>> \o WnafDigits((k - zi) \div 2, w)

\* lines 126-131: one round for the digit naf[i], then the rounds below it
RECURSIVE WnafAccumulate(_, _, _, _)
WnafAccumulate(naf, i, Q, precomp) ==
  IF i = 0 THEN Ok(Q)
  ELSE LET zi  == naf[i]
           dbl == PointDouble(Q)
           idx == (Abs(zi) - 1) \div 2
       IN  IF ~IsOk(dbl) THEN dbl
           ELSE IF zi = 0 THEN WnafAccumulate(naf, i - 1, dbl.val, precomp)
           ELSE IF idx + 1 > Len(precomp) THEN Raise("IndexError")
           ELSE LET addend == IF zi > 0 THEN Ok(precomp[idx + 1])
                                        ELSE PointNeg(precomp[idx + 1])
                    sum    == PointAdd(dbl.val, addend.val)
                IN  IF ~IsOk(addend) THEN addend
                    ELSE IF ~IsOk(sum) THEN sum
                    ELSE WnafAccumulate(naf, i - 1, sum.val, precomp)

RECURSIVE WnafScalarMult(_, _, _)
WnafScalarMult(k, P, w) ==
  IF k % Curves[P.curve].n = 0 \/ IsInfinity(P) THEN Ok(Infinity(P.curve))
  ELSE IF k < 0
       THEN LET np == PointNeg(P)
            IN  IF IsOk(np) THEN WnafScalarMult(-k, np.val, w) ELSE np
       ELSE LET precomp == Precomp(P, w)
                naf     == WnafDigits(k, w)
            IN  IF ~IsOk(precomp) THEN precomp
                ELSE WnafAccumulate(naf, Len(naf), Infinity(P.curve), precomp.val)

(***************************************************************************)
(* ECDSA (src/ecdsa.py).  A digest or HMAC block is the integer its bytes  *)
(* encode big-endian, HashBits bits long.                                  *)
(***************************************************************************)
Blocks == 0 .. Pow2(HashBits) - 1

\* x.to_bytes(len, 'big')
IntToBytes(x, len) == [i \in 1 .. len |-> (x \div (256 ^ (len - i))) % 256]

\* bits2int(b, qlen, n), for the blen-bit string that encodes i
Bits2Int(i, blen, qlen, n) ==
  IF blen > qlen THEN (i \div Pow2(blen - qlen)) % n ELSE i % n

\* int2octets(x, rolen)
Int2Octets(x, rolen) == IntToBytes(x, rolen)

\* bits2octets(b, n), for the string that encodes z1
Bits2Octets(z1, n) == Int2Octets(z1 % n, (BitLength(n) + 7) \div 8)

\* line 32: the seed of the HMAC chain, all that K and V depend on
NonceSeed(priv, h1, n) ==
  Int2Octets(priv, (BitLength(n) + 7) \div 8) \o Bits2Octets(h1, n)

\* line 45: the candidate is accepted
NonceAccepted(k, n) == 1 <= k /\ k < n

\* pow(a, -1, n); 0 stands for the ValueError of a base that has no inverse
ModInv(a, n) ==
  IF \E x \in 1 .. n - 1 : (a * x) % n = 1
  THEN CHOOSE x \in 1 .. n - 1 : (a * x) % n = 1
  ELSE 0

\* line 76
SignSNoPriv(kinv, e, r, priv, n) == (kinv * (e + r)) % n
SignS(kinv, e, r, priv, n) == (kinv * (e + r * priv)) % n

\* lines 80-81: low-S normalization
LowSOff(s, n) == s
LowS(s, n) == IF s > n \div 2 THEN n - s ELSE s

\* line 87
VerifyInRangeClosed(r, s, n) == 1 <= r /\ r <= n /\ 1 <= s /\ s <= n
VerifyInRange(r, s, n) == 1 <= r /\ r < n /\ 1 <= s /\ s < n

\* line 93: u1 * G(pub.curve) + u2 * pub
VerifyPoint(pub, u1, u2) ==
  LET g == G(pub.curve)
      a == ScalarMult(u1, g.val)
      b == ScalarMult(u2, pub)
  IN  IF ~IsOk(g) THEN g
      ELSE IF ~IsOk(a) THEN a
      ELSE IF ~IsOk(b) THEN b
      ELSE PointAdd(a.val, b.val)

\* verify(pub, msg, (r, s)), where sha256(msg) encodes h: "True", "False", or
\* the name of the exception raised
Verify(pub, h, r, s) ==
  LET n  == Curves[pub.curve].n
      e  == h % n
      w  == ModInv(s, n)
      u1 == (e * w) % n
      u2 == (r * w) % n
      pt == VerifyPoint(pub, u1, u2)
  IN  IF ~VerifyInRange(r, s, n) THEN "False"
      ELSE IF w = 0 THEN "ValueError: base is not invertible for the given modulus"
      ELSE IF ~IsOk(pt) THEN pt.exc
      ELSE IF IsInfinity(pt.val) THEN "False"
      ELSE IF pt.val.x % n = r THEN "True" ELSE "False"

(***************************************************************************)
(* ECDH (src/ecdh.py).  kdf_sha256 is the external SHA-256: a digest is    *)
(* the term sha256(input), so that two digests are equal exactly when      *)
(* their inputs are.  A call returns [status, secret, mults]: mults counts *)
(* the scalar multiplications the call made.                               *)
(***************************************************************************)
KdfSha256(xBytes) == [alg |-> "sha256", input |-> xBytes]

NoSecret == KdfSha256(<<>>)

\* line 10
ScalarInRangeClosed(priv, n) == 1 <= priv /\ priv <= n
ScalarInRange(priv, n) == 1 <= priv /\ priv < n

\* line 16: the minimal-length big-endian bytes of the x coordinate
XBytes(x) == IntToBytes(x, (BitLength(x) + 7) \div 8)

\* line 12: the point the secret is derived from
SharedPointOfBase(priv, peerPub) == ScalarMult(priv, G(peerPub.curve).val)
SharedPoint(priv, peerPub) == ScalarMult(priv, peerPub)

EcdhSharedSecret(priv, peerPub) ==
  LET S == SharedPoint(priv, peerPub)
  IN  IF ~ScalarInRange(priv, Curves[peerPub.curve].n)
      THEN [status |-> "ValueError: invalid private key scalar",
            secret |-> NoSecret, mults |-> 0]
      ELSE IF ~IsOk(S)
      THEN [status |-> S.exc, secret |-> NoSecret, mults |-> 1]
      ELSE IF IsInfinity(S.val)
      THEN [status |-> "ValueError: invalid shared point (infinity)",
            secret |-> NoSecret, mults |-> 1]
      ELSE [status |-> "ok", secret |-> KdfSha256(XBytes(S.val.x)), mults |-> 1]

\* the points Point(curve, x, y) accepts, and infinity
ValidPoints(c) ==
  {Infinity(c)} \cup
  {PointNew(c, xy[1], xy[2]).val :
     xy \in {xy0 \in (0 .. Curves[c].p - 1) \X (0 .. Curves[c].p - 1) :
               IsOk(PointNew(c, xy0[1], xy0[2]))}}

(***************************************************************************)
(* State.  cv is the Curve instance in use.                                *)
(*                                                                         *)
(* Group law: P and Q are the caller's two point values; op, kArg, wArg    *)
(* and res record the group operation in progress and what it returned.    *)
(*                                                                         *)
(* ECDSA: priv and pub are the key pair, msgDigest the value sha256        *)
(* returns for the message.  pc is the position of the sign call, depth    *)
(* the nesting of its recursive retry, seed the input of the HMAC chain of *)
(* rfc6979_generate_k, attempt the round of its loop, candLog the          *)
(* candidates k that bits2int has returned, round by round, for the HMAC   *)
(* blocks of that seed (the chain is a function of the seed: a later run   *)
(* over the same seed derives the same candidates), nonce the k it         *)
(* returned, sRaw the s of line 76, sig the pair (r, s) that sign returned *)
(* or verify is given, verdict what verify returned.                       *)
(*                                                                         *)
(* ECDH: kpA and kpB are two key pairs, outA and outB what                 *)
(* ecdh_shared_secret returned to each party, call the arguments and the   *)
(* result of a call on arbitrary arguments.                                *)
(***************************************************************************)
VARIABLES cv,
          P, Q, op, kArg, wArg, res,
          priv, pub, msgDigest, pc, depth, seed, attempt, candLog, nonce,
          sRaw, sig, verdict,
          kpA, kpB, outA, outB, call

groupVars == <<P, Q, op, kArg, wArg, res>>
signVars == <<priv, pub, msgDigest, pc, depth, seed, attempt, candLog, nonce,
              sRaw, sig, verdict>>
dhVars == <<kpA, kpB, outA, outB, call>>
vars == <<cv, groupVars, signVars, dhVars>>

Scalars == -MaxK .. MaxK
Widths == 2 .. MaxW
\* coordinates handed to the Point constructor: in range, and beyond p
CoordInputs(c) == 0 .. Curves[c].p + 1

NoKeyPair == [priv |-> 0, pub |-> Infinity(0)]
NoCall == [status |-> "none", secret |-> NoSecret, mults |-> 0]

GroupIdle ==
  /\ P = Infinity(cv)
  /\ Q = Infinity(cv)
  /\ op = "none"
  /\ kArg = 0
  /\ wArg = 0
  /\ res = Ok(Infinity(cv))

SignIdle ==
  /\ pc = "idle"
  /\ depth = 0
  /\ seed = <<>>
  /\ attempt = 0
  /\ candLog = <<>>
  /\ nonce = 0
  /\ sRaw = 0
  /\ sig = <<0, 0>>
  /\ verdict = "none"

DhIdle ==
  /\ kpA = NoKeyPair
  /\ kpB = NoKeyPair
  /\ outA = NoCall
  /\ outB = NoCall
  /\ call = [priv |-> 0, peer |-> Infinity(cv), out |-> NoCall]

InitGroup ==
  /\ cv \in CurveIds
  /\ GroupIdle
  /\ priv = 0 /\ pub = Infinity(cv) /\ msgDigest = 0 /\ SignIdle
  /\ DhIdle

\* Point(curve, x, y)
Construct(x, y) ==
  /\ op = "none"
  /\ op' = "Point"
  /\ res' = PointNew(cv, x, y)
  /\ UNCHANGED <<cv, signVars, dhVars, P, Q, kArg, wArg>>

\* Point.infinity(curve)
MakeInfinity ==
  /\ op = "none"
  /\ op' = "infinity"
  /\ res' = Ok(Infinity(cv))
  /\ UNCHANGED <<cv, signVars, dhVars, P, Q, kArg, wArg>>

\* -P
Negate ==
  /\ op = "none"
  /\ op' = "neg"
  /\ res' = PointNeg(P)
  /\ UNCHANGED <<cv, signVars, dhVars, P, Q, kArg, wArg>>

\* P + Q
Add ==
  /\ op = "none"
  /\ op' = "add"
  /\ res' = PointAdd(P, Q)
  /\ UNCHANGED <<cv, signVars, dhVars, P, Q, kArg, wArg>>

\* P.double()
Double ==
  /\ op = "none"
  /\ op' = "double"
  /\ res' = PointDouble(P)
  /\ UNCHANGED <<cv, signVars, dhVars, P, Q, kArg, wArg>>

\* scalar_mult(k, P), also k * P
Mul(k) ==
  /\ op = "none"
  /\ op' = "scalar_mult"
  /\ kArg' = k
  /\ res' = ScalarMult(k, P)
  /\ UNCHANGED <<cv, signVars, dhVars, P, Q, wArg>>

\* wnaf_scalar_mult(k, P, w)
Wnaf(k, w) ==
  /\ op = "none"
  /\ op' = "wnaf_scalar_mult"
  /\ kArg' = k
  /\ wArg' = w
  /\ res' = WnafScalarMult(k, P, w)
  /\ UNCHANGED <<cv, signVars, dhVars, P, Q>>

\* the caller keeps the point a call returned as an operand of later calls
Reuse ==
  /\ op # "none"
  /\ IsOk(res)
  /\ op' = "none"
  /\ P' = res.val
  /\ Q' = P
  /\ kArg' = 0
  /\ wArg' = 0
  /\ res' = Ok(Infinity(cv))
  /\ UNCHANGED <<cv, signVars, dhVars>>

\* the caller drops what a call returned (or catches what it raised)
Drop ==
  /\ op # "none"
  /\ op' = "none"
  /\ kArg' = 0
  /\ wArg' = 0
  /\ res' = Ok(Infinity(cv))
  /\ UNCHANGED <<cv, signVars, dhVars, P, Q>>

NextGroup ==
  \/ \E x \in CoordInputs(cv), y \in CoordInputs(cv) : Construct(x, y)
  \/ MakeInfinity
  \/ Negate
  \/ Add
  \/ Double
  \/ \E k \in Scalars : Mul(k)
  \/ \E k \in Scalars, w \in Widths : Wnaf(k, w)
  \/ Reuse
  \/ Drop

SpecGroup == InitGroup /\ [][NextGroup]_vars


(***************************************************************************)
(* SpecSign: sign(priv, msg, curve) for a key pair of KeyPair.generate,    *)
(* then verify(pub, msg, sig) on what it returned.                         *)
(***************************************************************************)
QLen(c) == BitLength(Curves[c].n)

InitSign ==
  /\ cv \in CurveIds
  /\ priv \in 1 .. Curves[cv].n - 1
  /\ pub = ScalarMult(priv, G(cv).val).val
  /\ msgDigest \in Blocks
  /\ SignIdle
  /\ GroupIdle
  /\ DhIdle

\* lines 67-69 and 30-38: sign is entered and rfc6979_generate_k seeds its
\* HMAC chain from (priv, h1, n)
SignEnter ==
  /\ pc = "idle"
  /\ pc' = "nonce"
  /\ seed' = NonceSeed(priv, msgDigest, Curves[cv].n)
  /\ attempt' = 1
  /\ UNCHANGED <<cv, groupVars, dhVars, priv, pub, msgDigest, depth, candLog,
                 nonce, sRaw, sig, verdict>>

\* lines 44-48: the end of a round of the loop of rfc6979_generate_k, on the
\* candidate k that bits2int returned
NonceRound(k) ==
  IF NonceAccepted(k, Curves[cv].n)
  THEN /\ nonce' = k
       /\ pc' = "compute"
       /\ UNCHANGED attempt
  ELSE /\ attempt' = attempt + 1
       /\ UNCHANGED <<nonce, pc>>

\* lines 39-48: one round.  Its candidate is the one derived in this round for
\* this seed before (a retry of sign runs the chain again over the same
\* seed); in a round not run before, HMAC returns any HashBits-bit block v,
\* the chain producing an acceptable candidate by round MaxAttempts.
NonceTry ==
  /\ pc = "nonce"
  /\ IF attempt <= Len(candLog)
     THEN /\ NonceRound(candLog[attempt])
          /\ UNCHANGED candLog
     ELSE \E v \in Blocks :
            LET k == Bits2Int(v, HashBits, QLen(cv), Curves[cv].n)
            IN  /\ attempt < MaxAttempts \/ NonceAccepted(k, Curves[cv].n)
                /\ candLog' = Append(candLog, k)
                /\ NonceRound(k)
  /\ UNCHANGED <<cv, groupVars, dhVars, priv, pub, msgDigest, depth, seed,
                 sRaw, sig, verdict>>

\* lines 73 and 78: return sign(priv, msg, curve), one frame deeper
SignRetry ==
  IF depth + 1 > RecursionLimit
  THEN /\ pc' = "RecursionError"
       /\ UNCHANGED <<depth, attempt, seed>>
  ELSE /\ pc' = "nonce"
       /\ depth' = depth + 1
       /\ seed' = NonceSeed(priv, msgDigest, Curves[cv].n)
       /\ attempt' = 1

\* lines 70-82
SignCompute ==
  /\ pc = "compute"
  /\ LET n    == Curves[cv].n
         R    == ScalarMult(nonce, G(cv).val)
         r    == R.val.x % n
         kinv == ModInv(nonce, n)
         e    == msgDigest % n
         s    == SignS(kinv, e, r, priv, n)
     IN  IF r = 0
         THEN SignRetry /\ UNCHANGED <<sRaw, sig>>
         ELSE IF s = 0
         THEN SignRetry /\ sRaw' = s /\ UNCHANGED sig
         ELSE /\ sRaw' = s
              /\ sig' = <<r, LowS(s, n)>>
              /\ pc' = "returned"
              /\ UNCHANGED <<depth, attempt, seed>>
  /\ UNCHANGED <<cv, groupVars, dhVars, priv, pub, msgDigest, candLog, nonce,
                 verdict>>

\* verify(kp.pub, msg, sig) on the signature sign returned
VerifySigned ==
  /\ pc = "returned"
  /\ pc' = "verified"
  /\ verdict' = Verify(pub, msgDigest, sig[1], sig[2])
  /\ UNCHANGED <<cv, groupVars, dhVars, priv, pub, msgDigest, depth, seed,
                 attempt, candLog, nonce, sRaw, sig>>

NextSign ==
  \/ SignEnter
  \/ NonceTry
  \/ SignCompute
  \/ VerifySigned

SpecSign == InitSign /\ [][NextSign]_vars

(***************************************************************************)
(* SpecVerify: verify(pub, msg, (r, s)) on any valid public point, any     *)
(* digest and any pair of integers from -1 to n + 1.                       *)
(***************************************************************************)
SigInts(c) == -1 .. Curves[c].n + 1

InitVerify ==
  /\ cv \in CurveIds
  /\ priv = 0
  /\ pub = Infinity(cv)
  /\ msgDigest = 0
  /\ SignIdle
  /\ GroupIdle
  /\ DhIdle

VerifyCall(pt, h, r, s) ==
  /\ pc = "idle"
  /\ pc' = "verified"
  /\ pub' = pt
  /\ msgDigest' = h
  /\ sig' = <<r, s>>
  /\ verdict' = Verify(pt, h, r, s)
  /\ UNCHANGED <<cv, groupVars, dhVars, priv, depth, seed, attempt, candLog,
                 nonce, sRaw>>

\* the caller is done with the verdict
VerifyReturn ==
  /\ pc = "verified"
  /\ pc' = "idle"
  /\ pub' = Infinity(cv)
  /\ msgDigest' = 0
  /\ sig' = <<0, 0>>
  /\ verdict' = "none"
  /\ UNCHANGED <<cv, groupVars, dhVars, priv, depth, seed, attempt, candLog,
                 nonce, sRaw>>

NextVerify ==
  \/ /\ pc = "idle"
     /\ \E pt \in ValidPoints(cv), h \in Blocks, r \in SigInts(cv), s \in SigInts(cv) :
          VerifyCall(pt, h, r, s)
  \/ VerifyReturn

SpecVerify == InitVerify /\ [][NextVerify]_vars

(***************************************************************************)
(* SpecECDH: two key pairs of KeyPair.generate, each party's               *)
(* ecdh_shared_secret on the other's public point; and                     *)
(* ecdh_shared_secret on any integer from -1 to n + 1 and any valid point. *)
(***************************************************************************)
InitECDH ==
  /\ cv \in CurveIds
  /\ priv = 0
  /\ pub = Infinity(cv)
  /\ msgDigest = 0
  /\ SignIdle
  /\ GroupIdle
  /\ DhIdle

\* KeyPair.generate (lines 57-63) on the draw d of secrets.randbelow(n): a
\* draw of 0 is drawn again
KeyPairOf(d) == [priv |-> d, pub |-> ScalarMult(d, G(cv).val).val]

GenerateA(d) ==
  /\ kpA = NoKeyPair
  /\ call.out = NoCall
  /\ IF 1 <= d /\ d < Curves[cv].n THEN kpA' = KeyPairOf(d) ELSE UNCHANGED kpA
  /\ UNCHANGED <<cv, groupVars, signVars, kpB, outA, outB, call>>

GenerateB(d) ==
  /\ kpB = NoKeyPair
  /\ call.out = NoCall
  /\ IF 1 <= d /\ d < Curves[cv].n THEN kpB' = KeyPairOf(d) ELSE UNCHANGED kpB
  /\ UNCHANGED <<cv, groupVars, signVars, kpA, outA, outB, call>>

\* ecdh_shared_secret(a.priv, b.pub)
EcdhA ==
  /\ kpA # NoKeyPair
  /\ kpB # NoKeyPair
  /\ outA = NoCall
  /\ outA' = EcdhSharedSecret(kpA.priv, kpB.pub)
  /\ UNCHANGED <<cv, groupVars, signVars, kpA, kpB, outB, call>>

\* ecdh_shared_secret(b.priv, a.pub)
EcdhB ==
  /\ kpA # NoKeyPair
  /\ kpB # NoKeyPair
  /\ outB = NoCall
  /\ outB' = EcdhSharedSecret(kpB.priv, kpA.pub)
  /\ UNCHANGED <<cv, groupVars, signVars, kpA, kpB, outA, call>>

\* ecdh_shared_secret(d, peer) on arbitrary arguments
EcdhCall(d, peer) ==
  /\ kpA = NoKeyPair
  /\ kpB = NoKeyPair
  /\ call.out = NoCall
  /\ call' = [priv |-> d, peer |-> peer, out |-> EcdhSharedSecret(d, peer)]
  /\ UNCHANGED <<cv, groupVars, signVars, kpA, kpB, outA, outB>>

\* the caller is done with the result
EcdhReturn ==
  /\ call.out # NoCall
  /\ call' = [priv |-> 0, peer |-> Infinity(cv), out |-> NoCall]
  /\ UNCHANGED <<cv, groupVars, signVars, kpA, kpB, outA, outB>>

NextECDH ==
  \/ \E d \in 0 .. Curves[cv].n - 1 : GenerateA(d)
  \/ \E d \in 0 .. Curves[cv].n - 1 : GenerateB(d)
  \/ EcdhA
  \/ EcdhB
  \/ /\ call.out = NoCall
     /\ \E d \in -1 .. Curves[cv].n + 1, peer \in ValidPoints(cv) : EcdhCall(d, peer)
  \/ EcdhReturn

SpecECDH == InitECDH /\ [][NextECDH]_vars

(***************************************************************************)
(* Reference definitions for the group-law claims.                         *)
(***************************************************************************)
\* the curve equation, checked directly on the coordinates
OnCurve(c, A) ==
  /\ A.curve = c
  /\ \/ IsInfinity(A)
     \/ /\ A.x \in 0 .. Curves[c].p - 1
        /\ A.y \in 0 .. Curves[c].p - 1
        /\ (A.y * A.y - (A.x * A.x * A.x + Curves[c].a * A.x + Curves[c].b))
             % Curves[c].p = 0

\* A added to itself m times, starting from infinity
RECURSIVE RepeatedAdd(_, _)
RepeatedAdd(m, A) ==
  IF m <= 0 THEN Ok(Infinity(A.curve))
  ELSE LET acc == RepeatedAdd(m - 1, A)
       IN  IF IsOk(acc) THEN PointAdd(acc.val, A) ELSE acc

GroupOps == {"neg", "add", "double", "scalar_mult", "wnaf_scalar_mult"}

\* the scalar and the point wnaf_scalar_mult works on after its k < 0 step
WnafK == Abs(kArg)
WnafP == IF kArg < 0 THEN PointNeg(P).val ELSE P

\* C2: wnaf_scalar_mult(k, P, w) returns the same point as scalar_mult(k, P),
\* for every point, every scalar (negative, zero, below and above n) and every
\* width w >= 2; and for every nonzero digit d of the recoding the table has
\* the entry (|d|-1)/2, which is the odd multiple |d|*P.
WnafEquivalence ==
  op = "wnaf_scalar_mult" =>
    /\ IsOk(res)
    /\ res = ScalarMult(kArg, P)
    /\ ~IsZeroScalar(kArg, P) =>
         LET naf   == WnafDigits(WnafK, wArg)
             table == Precomp(WnafP, wArg)
         IN  /\ IsOk(table)
             /\ \A i \in DOMAIN naf :
                  naf[i] # 0 =>
                    /\ (Abs(naf[i]) - 1) \div 2 + 1 \in DOMAIN table.val
                    /\ table.val[(Abs(naf[i]) - 1) \div 2 + 1]
                         = RepeatedAdd(Abs(naf[i]), WnafP).val

\* a wNAF call with a scalar above n whose recoding has a negative digit
WnafWitness ==
  /\ op = "wnaf_scalar_mult"
  /\ kArg > Curves[cv].n
  /\ wArg > 2
  /\ ~IsInfinity(res.val)
  /\ \E i \in DOMAIN WnafDigits(kArg, wArg) : WnafDigits(kArg, wArg)[i] < -1

\* C7: scalar_mult(k, P) is P added to itself (k mod n) times, for every
\* integer k and every point P of the curve whose order field is n.
ScalarMultReducesModN ==
  op = "scalar_mult" => res = RepeatedAdd(kArg % Curves[cv].n, P)

\* C8: P + O and O + P are P, and P + (-P) is O, also when y = 0 and -P = P.
NeutralAndInverse ==
  op = "add" =>
    /\ IsInfinity(Q) => res = Ok(P)
    /\ IsInfinity(P) => res = Ok(Q)
    /\ (~IsInfinity(P) /\ Q.x = P.x /\ Q.y = (-P.y) % Curves[cv].p)
         => res = Ok(Infinity(cv))

\* P + P for the self-inverse point with y = 0
SelfInverseWitness ==
  /\ op = "add"
  /\ ~IsInfinity(P)
  /\ P.y = 0
  /\ Q = P
  /\ res = Ok(Infinity(cv))

\* C10: from validated points, negation, addition, doubling and scalar
\* multiplication never raise ZeroDivisionError or the not-on-curve
\* ValueError, and every point they yield is infinity or an (x, y) in
\* [0, p) x [0, p) that satisfies the curve equation.
GroupOpsClosed ==
  /\ OnCurve(cv, P)
  /\ OnCurve(cv, Q)
  /\ op \in GroupOps =>
       /\ res.exc \notin {"ZeroDivisionError", "ValueError: Point is not on the curve"}
       /\ IsOk(res) => OnCurve(cv, res.val)

\* a chord addition (the slope denominator x2 - x1 is reached) of two points
\* that earlier operations returned
ChordWitness ==
  /\ op = "add"
  /\ ~IsInfinity(P)
  /\ ~IsInfinity(Q)
  /\ P.x # Q.x
  /\ IsOk(res)
  /\ ~IsInfinity(res.val)


\* C7, on the points the order n annihilates (every point of a cofactor-1
\* curve): scalar_mult(k, P) is P added to itself (k mod n) times.
ScalarMultReducesOnSubgroup ==
  (op = "scalar_mult" /\ RepeatedAdd(Curves[cv].n, P) = Ok(Infinity(cv)))
    => res = RepeatedAdd(kArg % Curves[cv].n, P)

(***************************************************************************)
(* ECDSA claims.                                                           *)
(***************************************************************************)
\* C1: whenever sign(priv, msg, curve) returns (r, s), for 1 <= priv < n and
\* pub = priv*G, verify(pub, msg, (r, s)) returns True, also when low-S
\* normalization replaced s by n - s.
SignVerifyRoundTrip ==
  (pc = "verified" /\ priv # 0) => verdict = "True"

\* a verified signature whose s was replaced by n - s
NormalizedRoundTripWitness ==
  /\ pc = "verified"
  /\ priv # 0
  /\ sRaw > Curves[cv].n \div 2
  /\ sig[2] = Curves[cv].n - sRaw
  /\ verdict = "True"

\* C4: every call to sign returns a signature: the retry taken when r = 0 or
\* s = 0 is entered finitely many times and never exhausts the recursion.
SignTerminates ==
  pc # "RecursionError"

\* C5: verify returns a boolean and never raises; it returns False when r or
\* s is outside [1, n), and False when u1*G + u2*pub is the point at infinity.
VerifyTotal ==
  (pc = "verified" /\ priv = 0) =>
    LET n == Curves[cv].n
        r == sig[1]
        s == sig[2]
    IN  /\ verdict \in {"True", "False"}
        /\ (r < 1 \/ r >= n \/ s < 1 \/ s >= n) => verdict = "False"
        /\ (1 <= r /\ r < n /\ 1 <= s /\ s < n) =>
             \A w \in 1 .. n - 1 :
               ((s * w) % n = 1
                /\ PointAdd(RepeatedAdd(((msgDigest % n) * w) % n, G(cv).val).val,
                            RepeatedAdd((r * w) % n, pub).val) = Ok(Infinity(cv)))
                 => verdict = "False"

\* r and s in range, a public point other than infinity, and u1*G + u2*pub
\* the point at infinity
VerifyInfinityWitness ==
  /\ pc = "verified"
  /\ priv = 0
  /\ VerifyInRange(sig[1], sig[2], Curves[cv].n)
  /\ ~IsInfinity(pub)
  /\ LET n == Curves[cv].n
         w == ModInv(sig[2], n)
     IN  PointAdd(RepeatedAdd(((msgDigest % n) * w) % n, G(cv).val).val,
                  RepeatedAdd((sig[1] * w) % n, pub).val) = Ok(Infinity(cv))
  /\ verdict = "False"

\* C6: every (r, s) that sign returns has 1 <= r < n, 1 <= s < n and
\* s <= floor(n/2).
SignatureLowS ==
  (pc \in {"returned", "verified"} /\ priv # 0) =>
    /\ 1 <= sig[1] /\ sig[1] < Curves[cv].n
    /\ 1 <= sig[2] /\ sig[2] < Curves[cv].n
    /\ sig[2] <= Curves[cv].n \div 2

\* sign returned after a retry-free run that computed a high s
HighSWitness ==
  /\ pc = "returned"
  /\ depth = 0
  /\ sRaw > Curves[cv].n \div 2
  /\ sig[2] # sRaw

(***************************************************************************)
(* ECDH claims.                                                            *)
(***************************************************************************)
\* C3: for two key pairs A and B of one curve, ecdh_shared_secret(A.priv,
\* B.pub) and ecdh_shared_secret(B.priv, A.pub) both succeed and return the
\* same bytes.
EcdhAgreement ==
  /\ outA # NoCall => outA.status = "ok"
  /\ outB # NoCall => outB.status = "ok"
  /\ (outA # NoCall /\ outB # NoCall) => outA.secret = outB.secret

\* both parties hold a secret, from different private scalars
EcdhAgreementWitness ==
  /\ outA.status = "ok"
  /\ outB.status = "ok"
  /\ kpA.priv # kpB.priv
  /\ kpA.pub # kpB.pub

\* C9: ecdh_shared_secret(priv, peer_pub) fails with the invalid-scalar error
\* when priv is outside [1, n), before any point computation; for priv in
\* [1, n) it fails with the invalid-shared-point error when priv*peer_pub is
\* infinity; it returns a secret only when neither holds, the digest of the
\* x coordinate of priv*peer_pub.
EcdhChecks ==
  call.out # NoCall =>
    LET n == Curves[cv].n
        S == RepeatedAdd(call.priv, call.peer).val
    IN  /\ (call.priv < 1 \/ call.priv >= n) =>
             /\ call.out.status = "ValueError: invalid private key scalar"
             /\ call.out.mults = 0
        /\ (1 <= call.priv /\ call.priv < n /\ IsInfinity(S)) =>
             call.out.status = "ValueError: invalid shared point (infinity)"
        /\ call.out.status = "ok" =>
             /\ 1 <= call.priv /\ call.priv < n
             /\ ~IsInfinity(S)
             /\ call.out.secret = KdfSha256(XBytes(S.x))
        /\ call.out.status # "ok" => call.out.secret = NoSecret

\* a scalar in range and a peer point other than infinity whose multiple is
\* infinity
EcdhInfinityWitness ==
  /\ call.out.status = "ValueError: invalid shared point (infinity)"
  /\ 1 <= call.priv /\ call.priv < Curves[cv].n
  /\ ~IsInfinity(call.peer)

=============================================================================
